---------------------------- MODULE Spec2Model ----------------------------
(***************************************************************************)
(* A model of fetch_wars.py: the clan-war tracker that fetches the current *)
(* war, normalises it into per-attack rows, stores one sheet per war in a  *)
(* workbook, rebuilds the roster and missed-hits sheets and regenerates    *)
(* the leaderboards of the trailing time windows.                          *)
(*                                                                         *)
(* Strings are modelled as sequences of tokens: a timestamp such as        *)
(* "20240103T080000.000Z" is <<"20240103T080000", ".", "000Z">>, so that   *)
(* the replacement of ':' and '.' by '-' and the truncation to a sheet     *)
(* name are computed, not assumed.  Spreadsheet columns are record fields  *)
(* (the column 'War ID' is the field WarID, and so on); the pass-through   *)
(* columns 'Team Size' and 'Map Position' are left out.                    *)
(***************************************************************************)
EXTENDS Integers, Sequences, FiniteSets, TLC

VARIABLES
    excel_exists,       \* os.path.exists(EXCEL_FILE)
    book,               \* the war sheets of the workbook, in sheet order
    roster,             \* the ROSTER sheet's rows (<<>>: no such sheet)
    missed_hits,        \* the MISSED_HITS sheet's rows (<<>>: no such sheet)
    leaderboard_files,  \* suffix -> the players of leaderboard<suffix>.json
    now,                \* the wall clock, in days
    runs,               \* how many runs of main() have finished
    edits,              \* how many cells the clan's curator has edited by hand
    discord_reports,    \* war id -> calls of send_discord_war_report so far
    last                \* what the latest run of main() did

vars == <<excel_exists, book, roster, missed_hits, leaderboard_files, now,
          runs, edits, discord_reports, last>>

----------------------------------------------------------------------------
(* Bounds of the model *)

MaxRuns == 2

MaxEdits == 1

(* Program constants *)

SheetNameLimit == 31

StandardAttacksPerWar == 2

ROSTER_SHEET_NAME == <<"ROSTER">>

MISSED_HITS_SHEET_NAME == <<"MISSED_HITS">>

\* periods of main(): days_filter and file suffix; None is modelled as 0
\* (calculate_leaderboard tests `if days_filter:`)
Periods == <<[days |-> 0, suffix |-> "_all"], [days |-> 7, suffix |-> "_7d"],
             [days |-> 30, suffix |-> "_30d"], [days |-> 90, suffix |-> "_90d"]>>

Suffixes == {Periods[i].suffix : i \in 1..Len(Periods)}

----------------------------------------------------------------------------
(* The inputs: what the API may answer *)

\* pd.to_datetime of a timestamp: the day its date part names
DayOfDate == [d \in {"20240101T080000", "20240103T080000",
                     "20240201T080000", "20240203T080000"} |->
                CASE d = "20240101T080000" -> 1
                  [] d = "20240103T080000" -> 3
                  [] d = "20240201T080000" -> 32
                  [] d = "20240203T080000" -> 34]

Timestamp(date) == <<date, ".", "000Z">>

\* the wars the clan fights: preparation start and end of each
WarCalendar == {[preparationStartTime |-> Timestamp("20240101T080000"),
                 endTime |-> Timestamp("20240103T080000")],
                [preparationStartTime |-> Timestamp("20240201T080000"),
                 endTime |-> Timestamp("20240203T080000")]}

\* the days on which the scheduler may start a run
Clock == {36, 100}

WarStates == {"notInWar", "inWar", "warEnded"}

\* war['warLeague']: a JSON object that may lack its keys; the first is the
\* empty object, which is also war.get('warLeague', {}) of a missing key
WarLeagues == {[has_id |-> FALSE, has_name |-> FALSE, name |-> "None"],
               [has_id |-> TRUE, has_name |-> FALSE, name |-> "None"],
               [has_id |-> TRUE, has_name |-> TRUE, name |-> "Unranked"],
               [has_id |-> TRUE, has_name |-> TRUE, name |-> "Crystal League I"]}

Tags == {"#P", "#Q"}

Names == {"Ann", "Bob"}

TownHalls == {9, 10}

\* an attack's outcome: triple, plain, missed
Outcomes == {[stars |-> 3, destructionPercentage |-> 100],
             [stars |-> 1, destructionPercentage |-> 50],
             [stars |-> 0, destructionPercentage |-> 0]}

Triple == [stars |-> 3, destructionPercentage |-> 100]

Missed == [stars |-> 0, destructionPercentage |-> 0]

\* a member's attacks: the game gives each member at most two per war
ListsOver(outcomes) == {<<>>} \cup {<<a>> : a \in outcomes}
                         \cup {<<a, b>> : a \in outcomes, b \in outcomes}

AttackLists == ListsOver(Outcomes)

Min(a, b) == IF a < b THEN a ELSE b

----------------------------------------------------------------------------
(* Helpers on strings and sheets *)

\* str.replace(':', '-').replace('.', '-')
ReplaceSeparators(s) ==
    [i \in 1..Len(s) |-> IF s[i] \in {":", "."} THEN "-" ELSE s[i]]

\* war_id[:31]
SheetName(war_id) == SubSeq(war_id, 1, Min(Len(war_id), SheetNameLimit))

get_war_id(war) ==
    LET prep_time == IF war.preparationStartTime # <<>>
                     THEN war.preparationStartTime
                     ELSE war.endTime
    IN  ReplaceSeparators(prep_time)

\* variant: a war in progress counts as ended too
is_war_ended_or_in_war(war) == war.state \in {"warEnded", "inWar"}

is_war_ended(war) == war.state = "warEnded"

is_cwl_war(war) ==
    LET war_league == war.warLeague
        truthy == war_league.has_id \/ war_league.has_name
        name == IF war_league.has_name THEN war_league.name ELSE "None"
    IN  IF truthy THEN name # "Unranked" ELSE FALSE

\* the positions of the sheets of `wb` named `sheet_name`
SheetIndex(wb, sheet_name) == {i \in 1..Len(wb) : wb[i].name = sheet_name}

HasSheet(wb, sheet_name) == SheetIndex(wb, sheet_name) # {}

\* pd.read_excel(EXCEL_FILE, sheet_name=...)
ReadSheet(wb, sheet_name) == wb[CHOOSE i \in SheetIndex(wb, sheet_name) : TRUE].rows

\* variant: the stored 'War Complete' flag is not read
war_already_saved_never_complete(exists_file, wb, war_id) ==
    [exists |-> exists_file /\ HasSheet(wb, SheetName(war_id)),
     is_complete |-> FALSE]

war_already_saved(exists_file, wb, war_id) ==
    IF ~exists_file THEN [exists |-> FALSE, is_complete |-> FALSE]
    ELSE LET sheet_name == SheetName(war_id)
             exists == HasSheet(wb, sheet_name)
         IN  [exists |-> exists,
              is_complete |-> exists
                              /\ ReadSheet(wb, sheet_name) # <<>>
                              /\ ReadSheet(wb, sheet_name)[1].WarComplete = "Yes"]

\* the values of 'Is Loot Hit' that get_existing_loot_hits reads as a marking
LootMarks == {"TRUE", "Yes", "yes"}

\* variant: no marking is read back
get_existing_loot_hits_none(exists_file, wb, war_id) == <<>>

\* player tag -> the attack numbers marked as loot hits, in row order
get_existing_loot_hits(exists_file, wb, war_id) ==
    IF ~exists_file \/ ~HasSheet(wb, SheetName(war_id)) THEN <<>>
    ELSE LET df == ReadSheet(wb, SheetName(war_id))
             marked == SelectSeq(df, LAMBDA row : row.IsLootHit \in LootMarks)
         IN  [t \in {marked[i].PlayerTag : i \in 1..Len(marked)} |->
                LET mine == SelectSeq(marked, LAMBDA row : row.PlayerTag = t)
                IN  [i \in 1..Len(mine) |-> mine[i].AttackNumber]]


----------------------------------------------------------------------------
(* The normaliser *)

\* the rows process_war appends for one member
MemberRows(war, member, existing_loot) ==
    LET war_id == get_war_id(war)
        is_complete == is_war_ended(war)
        player_tag == member.tag
        attacks == member.attacks
        common == [WarID |-> war_id,
                   WarState |-> war.state,
                   WarComplete |-> IF is_complete THEN "Yes" ELSE "No",
                   WarEndTime |-> war.endTime,
                   PlayerName |-> member.name,
                   PlayerTag |-> player_tag,
                   TownHall |-> member.townhallLevel]
        AttackRow(attack_idx) ==
            LET stars == attacks[attack_idx].stars
                destruction == attacks[attack_idx].destructionPercentage
                is_missed == (stars = 0 /\ destruction = 0)
                is_loot == /\ player_tag \in DOMAIN existing_loot
                           /\ \E k \in DOMAIN existing_loot[player_tag] :
                                  existing_loot[player_tag][k] = attack_idx
            IN  common @@ [AttackNumber |-> attack_idx,
                           Stars |-> stars,
                           Destruction |-> destruction,
                           IsTriple |-> IF stars = 3 THEN "Yes" ELSE "No",
                           IsMissed |-> IF is_missed THEN "Yes" ELSE "No",
                           IsLootHit |-> IF is_loot THEN "Yes" ELSE "No"]
        sentinel == common @@ [AttackNumber |-> 0,
                               Stars |-> 0,
                               Destruction |-> 0,
                               IsTriple |-> "No",
                               IsMissed |-> "Yes",
                               IsLootHit |-> "No"]
    IN  IF attacks = <<>> THEN <<sentinel>>
        ELSE [attack_idx \in 1..Len(attacks) |-> AttackRow(attack_idx)]

RECURSIVE WarDetails(_, _, _)
WarDetails(war, members, existing_loot) ==
    IF members = <<>> THEN <<>>
    ELSE MemberRows(war, Head(members), existing_loot)
         \o WarDetails(war, Tail(members), existing_loot)

\* process_war(war) with preserve_loot_markings = True, as main() calls it
process_war(exists_file, wb, war) ==
    LET war_id == get_war_id(war)
        existing_loot == get_existing_loot_hits(exists_file, wb, war_id)
    IN  [war_id |-> war_id,
         war_details |-> WarDetails(war, war.members, existing_loot),
         is_ended |-> is_war_ended(war)]

----------------------------------------------------------------------------
(* The store *)

\* the sequence `s` without the elements at the positions `drop`
RECURSIVE Without(_, _)
Without(s, drop) ==
    IF s = <<>> THEN <<>>
    ELSE LET rest == Without(Tail(s), {i - 1 : i \in drop \ {1}})
         IN  IF 1 \in drop THEN rest ELSE <<Head(s)>> \o rest

\* the workbook after save_war_to_excel(war_data): the sheet of that name is
\* deleted and a new one is created at the end
save_war_to_excel(wb, war_data) ==
    IF war_data.war_details = <<>> THEN wb
    ELSE LET sheet_name == SheetName(war_data.war_id)
         IN  Append(Without(wb, SheetIndex(wb, sheet_name)),
                    [name |-> sheet_name, rows |-> war_data.war_details])

\* all rows of the war sheets, in sheet order
RECURSIVE AllRows(_)
AllRows(wb) == IF wb = <<>> THEN <<>> ELSE Head(wb).rows \o AllRows(Tail(wb))

\* all_players of update_roster_sheet after the rows `rows`: a sequence in
\* the dictionary's insertion order
RECURSIVE RosterScan(_, _)
RosterScan(all_players, rows) ==
    IF rows = <<>> THEN all_players
    ELSE LET row == Head(rows)
             known == \E i \in 1..Len(all_players) :
                          all_players[i].PlayerTag = row.PlayerTag
             started == IF known THEN all_players
                        ELSE Append(all_players,
                                    [PlayerTag |-> row.PlayerTag,
                                     PlayerName |-> row.PlayerName,
                                     LastSeenTH |-> row.TownHall,
                                     TotalWars |-> 0,
                                     WarsParticipated |-> 0])
             Update(p) ==
                 IF p.PlayerTag # row.PlayerTag THEN p
                 ELSE [p EXCEPT
                         !.WarsParticipated =
                             IF row.AttackNumber > 0 THEN @ + 1 ELSE @,
                         !.LastSeenTH =
                             IF row.TownHall > @ THEN row.TownHall ELSE @]
         IN  RosterScan([i \in 1..Len(started) |-> Update(started[i])],
                        Tail(rows))

\* the order of str values that sort_values and groupby use
NameOrder == <<"Ann", "Bob">>

TagOrder == <<"#P", "#Q">>

Rank(order, x) == CHOOSE i \in 1..Len(order) : order[i] = x

\* the rows of the ROSTER sheet that update_roster_sheet writes
update_roster_sheet(wb) ==
    LET scanned == RosterScan(<<>>, AllRows(wb))
        total_wars == Len(wb)
        players == [i \in 1..Len(scanned) |->
                      [scanned[i] EXCEPT !.TotalWars = total_wars]]
        indexed == [i \in 1..Len(players) |-> [at |-> i, player |-> players[i]]]
        sorted == SortSeq(indexed,
                    LAMBDA a, b :
                      \/ Rank(NameOrder, a.player.PlayerName)
                           < Rank(NameOrder, b.player.PlayerName)
                      \/ /\ a.player.PlayerName = b.player.PlayerName
                         /\ a.at < b.at)
    IN  [i \in 1..Len(sorted) |-> sorted[i].player]

\* whether the sheet's first row says the war is complete
SheetComplete(sheet) == sheet.rows # <<>> /\ sheet.rows[1].WarComplete = "Yes"

\* pd.to_datetime(row['War End Time'])
EndDay(row) == DayOfDate[row.WarEndTime[1]]

\* the rows of the MISSED_HITS sheet after update_missed_hits_sheet; the
\* sheet is left as it is when no complete war has a missed row
update_missed_hits_sheet(wb, old_sheet) ==
    LET complete == SelectSeq(wb, SheetComplete)
        all_missed == SelectSeq(AllRows(complete),
                                LAMBDA row : row.IsMissed = "Yes")
        indexed == [i \in 1..Len(all_missed) |->
                      [at |-> i,
                       day |-> EndDay(all_missed[i]),
                       row |-> [WarID |-> all_missed[i].WarID,
                                WarEndTime |-> all_missed[i].WarEndTime,
                                PlayerName |-> all_missed[i].PlayerName,
                                PlayerTag |-> all_missed[i].PlayerTag,
                                TownHall |-> all_missed[i].TownHall,
                                AttackNumber |-> all_missed[i].AttackNumber,
                                Stars |-> all_missed[i].Stars,
                                Destruction |-> all_missed[i].Destruction]]]
        sorted == SortSeq(indexed,
                    LAMBDA a, b :
                      \/ a.day > b.day
                      \/ /\ a.day = b.day
                         /\ Rank(NameOrder, a.row.PlayerName)
                              < Rank(NameOrder, b.row.PlayerName)
                      \/ /\ a.day = b.day
                         /\ a.row.PlayerName = b.row.PlayerName
                         /\ a.at < b.at)
    IN  IF all_missed = <<>> THEN old_sheet
        ELSE [i \in 1..Len(sorted) |-> sorted[i].row]

----------------------------------------------------------------------------
(* The leaderboard aggregator *)

RECURSIVE SumStars(_)
SumStars(rows) == IF rows = <<>> THEN 0 ELSE Head(rows).Stars + SumStars(Tail(rows))

\* num / den rounded to the nearest integer, a tie to the even one: what
\* f"{x:.1f}" and round(x, 2) do with the scaled quotient
RoundHalfEven(num, den) ==
    LET q == num \div den
        r == num % den
    IN  IF 2 * r < den THEN q
        ELSE IF 2 * r > den THEN q + 1
        ELSE IF q % 2 = 0 THEN q ELSE q + 1

\* variant: the sheets of wars in progress are read as well
SheetDataAnyState(sheet, days_filter, today) ==
    IF days_filter # 0
    THEN SelectSeq(sheet.rows, LAMBDA row : EndDay(row) >= today - days_filter)
    ELSE sheet.rows

\* the rows calculate_leaderboard reads from one sheet: none unless the war
\* is complete, and with a window only those not ended before the cutoff
SheetData(sheet, days_filter, today) ==
    IF ~SheetComplete(sheet) THEN <<>>
    ELSE IF days_filter # 0
         THEN SelectSeq(sheet.rows, LAMBDA row : EndDay(row) >= today - days_filter)
         ELSE sheet.rows

RECURSIVE AllData(_, _, _)
AllData(wb, days_filter, today) ==
    IF wb = <<>> THEN <<>>
    ELSE SheetData(Head(wb), days_filter, today)
         \o AllData(Tail(wb), days_filter, today)

\* count_missed of one (Player Name, Player Tag) group of missed_attacks
count_missed(group) ==
    IF \E i \in 1..Len(group) : group[i].AttackNumber = 0
    THEN StandardAttacksPerWar
    ELSE Len(SelectSeq(group, LAMBDA row : row.IsMissed = "Yes"))

\* one row of player_stats: the group (name, tag) of all_attacks_df
PlayerStats(all_attacks_df, name, tag) ==
    LET InGroup(row) == row.PlayerName = name /\ row.PlayerTag = tag
        mine == SelectSeq(all_attacks_df, InGroup)
        total_wars == Cardinality({mine[i].WarID : i \in 1..Len(mine)})
        missed_attacks == SelectSeq(mine, LAMBDA row : row.IsMissed = "Yes"
                                                        \/ row.AttackNumber = 0)
        missed_count == IF missed_attacks = <<>> THEN 0
                        ELSE count_missed(missed_attacks)
        combined == SelectSeq(mine, LAMBDA row : /\ row.IsLootHit # "Yes"
                                                 /\ row.IsMissed # "Yes"
                                                 /\ row.AttackNumber > 0)
        total_stars == SumStars(combined)
        three_stars == Len(SelectSeq(combined, LAMBDA row : row.IsTriple = "Yes"))
        total_attacks == Len(combined)
    IN  [PlayerName |-> name,
         PlayerTag |-> tag,
         \* '3 Star Rate' in tenths of a percent: 333 is "33.3%"
         ThreeStarRate |-> IF total_attacks > 0
                           THEN RoundHalfEven(three_stars * 1000, total_attacks)
                           ELSE 0,
         \* 'Avg Stars Per Attack' in hundredths
         AvgStarsPerAttack |-> IF total_attacks > 0
                               THEN RoundHalfEven(total_stars * 100, total_attacks)
                               ELSE 0,
         TotalAttacks |-> total_attacks,
         TotalWars |-> total_wars,
         TotalStars |-> total_stars,
         MissedHits |-> missed_count]

\* variant: total wars is the second sort key and missed hits the third
LeaderboardBeforeByWars(a, b) ==
    \/ a.ThreeStarRate > b.ThreeStarRate
    \/ /\ a.ThreeStarRate = b.ThreeStarRate
       /\ \/ a.TotalWars > b.TotalWars
          \/ /\ a.TotalWars = b.TotalWars
             /\ \/ a.MissedHits < b.MissedHits
                \/ /\ a.MissedHits = b.MissedHits
                   /\ \/ Rank(NameOrder, a.PlayerName) < Rank(NameOrder, b.PlayerName)
                      \/ /\ a.PlayerName = b.PlayerName
                         /\ Rank(TagOrder, a.PlayerTag) < Rank(TagOrder, b.PlayerTag)

\* sort_values(['_sort_rate', 'Missed Hits', 'Total Wars'],
\*             ascending=[False, True, False]), stable on the groupby order
\* (Player Name, Player Tag)
LeaderboardBefore(a, b) ==
    \/ a.ThreeStarRate > b.ThreeStarRate
    \/ /\ a.ThreeStarRate = b.ThreeStarRate
       /\ \/ a.MissedHits < b.MissedHits
          \/ /\ a.MissedHits = b.MissedHits
             /\ \/ a.TotalWars > b.TotalWars
                \/ /\ a.TotalWars = b.TotalWars
                   /\ \/ Rank(NameOrder, a.PlayerName) < Rank(NameOrder, b.PlayerName)
                      \/ /\ a.PlayerName = b.PlayerName
                         /\ Rank(TagOrder, a.PlayerTag) < Rank(TagOrder, b.PlayerTag)

\* a set as a sequence, in any order
RECURSIVE SetToSeq(_)
SetToSeq(S) == IF S = {} THEN <<>>
               ELSE LET x == CHOOSE x \in S : TRUE
                    IN  <<x>> \o SetToSeq(S \ {x})

\* calculate_leaderboard(days_filter); None is <<>>
calculate_leaderboard(exists_file, wb, days_filter, today) ==
    IF ~exists_file THEN <<>>
    ELSE LET all_attacks_df == AllData(wb, days_filter, today)
             combined_df == SelectSeq(all_attacks_df,
                                LAMBDA row : /\ row.IsLootHit # "Yes"
                                             /\ row.IsMissed # "Yes"
                                             /\ row.AttackNumber > 0)
             groups == {<<all_attacks_df[i].PlayerName, all_attacks_df[i].PlayerTag>> :
                           i \in 1..Len(all_attacks_df)}
             player_stats == {PlayerStats(all_attacks_df, g[1], g[2]) : g \in groups}
         IN  IF all_attacks_df = <<>> THEN <<>>
             ELSE IF combined_df = <<>> THEN <<>>
             ELSE LET sorted == SortSeq(SetToSeq(player_stats), LeaderboardBefore)
                  IN  [i \in 1..Len(sorted) |->
                         [PlayerName |-> sorted[i].PlayerName,
                          PlayerTag |-> sorted[i].PlayerTag,
                          ThreeStarRate |-> sorted[i].ThreeStarRate,
                          AvgStarsPerAttack |-> sorted[i].AvgStarsPerAttack,
                          TotalWars |-> sorted[i].TotalWars,
                          TotalStars |-> sorted[i].TotalStars,
                          MissedHits |-> sorted[i].MissedHits]]

\* the leaderboard files after the loop over the periods: a file is written
\* only when its leaderboard is not None
UpdateLeaderboards(exists_file, wb, files, today) ==
    [suffix \in Suffixes |->
       LET period == CHOOSE i \in 1..Len(Periods) : Periods[i].suffix = suffix
           leaderboard == calculate_leaderboard(exists_file, wb,
                                                Periods[period].days, today)
       IN  IF leaderboard # <<>> THEN leaderboard ELSE files[suffix]]

----------------------------------------------------------------------------
(* The snapshots the API may return *)

NoLeague == [has_id |-> FALSE, has_name |-> FALSE, name |-> "None"]

Unranked == [has_id |-> TRUE, has_name |-> TRUE, name |-> "Unranked"]

\* the clan's members: each tag under one name and town hall
DefaultName == [t \in Tags |-> IF t = "#P" THEN "Ann" ELSE "Bob"]

MembersOf(t, lists) == {[tag |-> t, name |-> DefaultName[t], townhallLevel |-> 9,
                         attacks |-> a] : a \in lists}

\* the members of a snapshot: any of the tags, each once, in tag order
MemberLists(lists) ==
    {<<>>} \cup {<<m>> : m \in UNION {MembersOf(t, lists) : t \in Tags}}
           \cup {<<p, q>> : p \in MembersOf("#P", lists), q \in MembersOf("#Q", lists)}

NotInWarSnapshot == [state |-> "notInWar",
                     preparationStartTime |-> <<>>,
                     endTime |-> <<>>,
                     warLeague |-> NoLeague,
                     members |-> <<>>]

WarSnapshots(leagues, member_lists) ==
    {[state |-> st,
      preparationStartTime |-> w.preparationStartTime,
      endTime |-> w.endTime,
      warLeague |-> lg,
      members |-> ms] : st \in WarStates \ {"notInWar"}, w \in WarCalendar,
                        lg \in leagues, ms \in member_lists}

WarIds == {get_war_id(w) : w \in WarSnapshots({NoLeague}, {<<>>})}

\* the snapshots of the runs of Spec: every league with one member list, and
\* every member list whose attacks are triples or missed with one league
Snapshots ==
    WarSnapshots(WarLeagues, {<<>>} \cup {<<m>> : m \in MembersOf("#P", {<<Triple>>})})
    \cup WarSnapshots({Unranked}, MemberLists(ListsOver({Triple, Missed})))

\* the snapshots of the runs of SpecLeaderboard, all of one league: an ended
\* war with every member list, a war in progress with triples only
LeaderboardSnapshots ==
    {war \in WarSnapshots({Unranked}, MemberLists(AttackLists)) :
        war.state = "warEnded" /\ war.members # <<>>}
    \cup {war \in WarSnapshots({Unranked}, MemberLists(ListsOver({Triple}))) :
        war.state = "inWar" /\ war.members # <<>>}

----------------------------------------------------------------------------
(* main() *)

\* no war_data: the run did not reach process_war
NoData == [war_id |-> <<>>, war_details |-> <<>>, is_ended |-> FALSE]

Init ==
    /\ excel_exists = FALSE
    /\ book = <<>>
    /\ roster = <<>>
    /\ missed_hits = <<>>
    /\ leaderboard_files = [suffix \in Suffixes |-> <<>>]
    /\ now = 36
    /\ runs = 0
    /\ edits = 0
    /\ discord_reports = [id \in WarIds |-> 0]
    /\ last = [outcome |-> "none", war |-> NotInWarSnapshot, war_data |-> NoData,
               calls |-> {}]

\* the end of main(): the loop over the periods
Leaderboards(outcome, war, war_data, calls) ==
    /\ leaderboard_files' = UpdateLeaderboards(excel_exists', book',
                                               leaderboard_files, now)
    /\ last' = [outcome |-> outcome, war |-> war, war_data |-> war_data,
                calls |-> calls \cup {"calculate_leaderboard"}]
    /\ runs' = runs + 1
    /\ UNCHANGED <<now, edits>>

\* save_war_to_excel, update_roster_sheet, update_missed_hits_sheet
StoreWar(war_data) ==
    /\ book' = save_war_to_excel(book, war_data)
    /\ excel_exists' = (excel_exists \/ war_data.war_details # <<>>)
    /\ roster' = IF excel_exists' THEN update_roster_sheet(book') ELSE roster
    /\ missed_hits' = IF excel_exists'
                      THEN update_missed_hits_sheet(book', missed_hits)
                      ELSE missed_hits

StoreCalls == {"save_war_to_excel", "update_roster_sheet",
               "update_missed_hits_sheet"}

\* fetch_current_war() returns None: main() returns at once
FetchFailed ==
    /\ runs < MaxRuns
    /\ last' = [outcome |-> "fetch_failed", war |-> NotInWarSnapshot,
                war_data |-> NoData, calls |-> {}]
    /\ runs' = runs + 1
    /\ UNCHANGED <<excel_exists, book, roster, missed_hits, leaderboard_files,
                   now, edits, discord_reports>>

NotInWar ==
    /\ runs < MaxRuns
    /\ UNCHANGED <<excel_exists, book, roster, missed_hits, discord_reports>>
    /\ Leaderboards("not_in_war", NotInWarSnapshot, NoData, {})

CwlSkipped(war) ==
    /\ runs < MaxRuns
    /\ war.state # "notInWar"
    /\ is_cwl_war(war)
    /\ UNCHANGED <<excel_exists, book, roster, missed_hits, discord_reports>>
    /\ Leaderboards("cwl_skipped", war, NoData, {})

AlreadyComplete(war) ==
    /\ runs < MaxRuns
    /\ war.state # "notInWar"
    /\ ~is_cwl_war(war)
    /\ LET war_data == process_war(excel_exists, book, war)
       IN  /\ war_already_saved(excel_exists, book, war_data.war_id).is_complete
           /\ UNCHANGED <<excel_exists, book, roster, missed_hits, discord_reports>>
           /\ Leaderboards("already_complete", war, war_data, {})

SaveEnded(war) ==
    /\ runs < MaxRuns
    /\ war.state # "notInWar"
    /\ ~is_cwl_war(war)
    /\ LET war_data == process_war(excel_exists, book, war)
       IN  /\ ~war_already_saved(excel_exists, book, war_data.war_id).is_complete
           /\ war_data.is_ended
           /\ StoreWar(war_data)
           /\ discord_reports' = [discord_reports EXCEPT ![war_data.war_id] = @ + 1]
           /\ Leaderboards("ended_saved", war, war_data,
                           StoreCalls \cup {"send_discord_war_report"})

SaveInProgress(war) ==
    /\ runs < MaxRuns
    /\ war.state # "notInWar"
    /\ ~is_cwl_war(war)
    /\ LET war_data == process_war(excel_exists, book, war)
       IN  /\ ~war_already_saved(excel_exists, book, war_data.war_id).is_complete
           /\ ~war_data.is_ended
           /\ StoreWar(war_data)
           /\ UNCHANGED discord_reports
           /\ Leaderboards("in_progress_saved", war, war_data, StoreCalls)

----------------------------------------------------------------------------
(* The environment between two runs *)

\* what the curator may put in an 'Is Loot Hit' cell
LootCells == {"Yes", "No", "TRUE"}

\* the curator edits the 'Is Loot Hit' cell of one stored row (an edit that
\* no later run of the model would read is left out)
HumanEdit ==
    /\ edits < MaxEdits
    /\ runs < MaxRuns
    /\ \E i \in 1..Len(book) : \E j \in 1..Len(book[i].rows) :
       \E cell \in LootCells \ {book[i].rows[j].IsLootHit} :
           book' = [book EXCEPT ![i].rows[j].IsLootHit = cell]
    /\ edits' = edits + 1
    /\ UNCHANGED <<excel_exists, roster, missed_hits, leaderboard_files, now,
                   runs, discord_reports, last>>

\* time passes (a day that no later run of the model would see is left out)
Tick ==
    /\ runs < MaxRuns
    /\ \E day \in Clock : day > now /\ now' = day
    /\ UNCHANGED <<excel_exists, book, roster, missed_hits, leaderboard_files,
                   runs, edits, discord_reports, last>>

\* the answers the API may give to the next run, while the model lets runs start
Fetchable(snapshots) == IF runs < MaxRuns THEN snapshots ELSE {}

Next ==
    \/ FetchFailed
    \/ NotInWar
    \/ \E war \in Fetchable(Snapshots) : CwlSkipped(war)
    \/ \E war \in Fetchable(Snapshots) : AlreadyComplete(war)
    \/ \E war \in Fetchable(Snapshots) : SaveEnded(war)
    \/ \E war \in Fetchable(Snapshots) : SaveInProgress(war)
    \/ HumanEdit

Spec == Init /\ [][Next]_vars

\* the first fetch of a war: the workbook has no sheet of it yet
FirstFetch(war) ==
    /\ ~HasSheet(book, SheetName(get_war_id(war)))
    /\ \/ SaveEnded(war)
       \/ SaveInProgress(war)

\* every war is fetched once, with any members and attacks, and later runs
\* find the clan not in war
NextLeaderboard ==
    \/ \E war \in Fetchable(LeaderboardSnapshots) : FirstFetch(war)
    \/ NotInWar
    \/ Tick

SpecLeaderboard == Init /\ [][NextLeaderboard]_vars

\* a member under any of the names and town-hall levels, with no attack or one
RenamedMembersOf(t) ==
    {[tag |-> t, name |-> n, townhallLevel |-> th, attacks |-> a] :
        n \in Names, th \in TownHalls, a \in {<<>>, <<Triple>>}}

\* the snapshots in which a player may have changed name or town hall
RosterSnapshots ==
    WarSnapshots({Unranked},
       {<<>>} \cup {<<m>> : m \in UNION {RenamedMembersOf(t) : t \in Tags}}
              \cup {<<p, q>> : p \in RenamedMembersOf("#P"),
                               q \in RenamedMembersOf("#Q")})

\* the runs that fetch a war of players who change name and town hall
NextRoster ==
    \/ \E war \in Fetchable(RosterSnapshots) : AlreadyComplete(war)
    \/ \E war \in Fetchable(RosterSnapshots) : SaveEnded(war)
    \/ \E war \in Fetchable(RosterSnapshots) : SaveInProgress(war)

SpecRoster == Init /\ [][NextRoster]_vars

----------------------------------------------------------------------------
(* Notions the claims use *)

\* a step that is a run of main()
RunStep == runs' = runs + 1

\* the run reached process_war
Processed == last.outcome \in {"already_complete", "ended_saved", "in_progress_saved"}

\* the run stored its war_data
Saved == last.outcome \in {"ended_saved", "in_progress_saved"}

\* the record set is stored as complete: every row's flag is set
StoredComplete(sheet) ==
    \A j \in 1..Len(sheet.rows) : sheet.rows[j].WarComplete = "Yes"

\* the row carries a loot-hit marking
LootMarked(row) == row.IsLootHit \in {"TRUE", "Yes", "yes"}

\* the stored rows of the war the latest run fetched
LastSheetRows ==
    IF HasSheet(book, SheetName(last.war_data.war_id))
    THEN ReadSheet(book, SheetName(last.war_data.war_id))
    ELSE <<>>

\* the leaderboard of each period, computed from the store as it is
CurrentLeaderboard(days) == calculate_leaderboard(excel_exists, book, days, now)

PeriodDays == {Periods[i].days : i \in 1..Len(Periods)}

----------------------------------------------------------------------------
(* C1: once a war's record set is stored as complete (first row 'War        *)
(* Complete' = 'Yes'), no run of main() calls save_war_to_excel for that    *)
(* war identifier, and every run leaves the record set exactly as it was.   *)
C1_CompleteWarImmutable ==
    [][RunStep =>
         \A i \in 1..Len(book) :
            (book[i].rows[1].WarComplete = "Yes") =>
               /\ \E j \in 1..Len(book') : book'[j] = book[i]
               /\ ~(/\ last'.war_data.war_id = book[i].rows[1].WarID
                    /\ "save_war_to_excel" \in last'.calls)]_vars

\* a run fetched a war already stored as complete, with other data than the
\* stored ones, and skipped it
C1_Witness ==
    /\ last.outcome = "already_complete"
    /\ LastSheetRows # <<>>
    /\ LastSheetRows[1].WarComplete = "Yes"
    /\ LastSheetRows # last.war_data.war_details

(* C2: when a run re-fetches a war whose stored record set is not complete, *)
(* a record (player tag, attack number > 0) that was marked loot-hit and is *)
(* still in the new snapshot stays marked, and no record is marked after    *)
(* the run that was not marked before it.                                   *)
C2_LootHitsPreserved ==
    [][RunStep =>
         \A i \in 1..Len(book) : \A k \in 1..Len(book') :
            (~StoredComplete(book[i]) /\ book'[k].name = book[i].name) =>
               LET old == book[i].rows
                   new == book'[k].rows
                   Same(a, b) == /\ a.PlayerTag = b.PlayerTag
                                 /\ a.AttackNumber = b.AttackNumber
               IN  /\ \A a \in 1..Len(old) : \A b \in 1..Len(new) :
                        (/\ old[a].AttackNumber > 0
                         /\ LootMarked(old[a])
                         /\ Same(old[a], new[b])) => LootMarked(new[b])
                   /\ \A b \in 1..Len(new) :
                        LootMarked(new[b]) =>
                           \E a \in 1..Len(old) : /\ Same(old[a], new[b])
                                                  /\ LootMarked(old[a])]_vars

\* the last run of the model stored a war again and a record of it carries
\* the marking that process_war writes: the curator's marking was carried over
C2_Witness ==
    /\ runs = MaxRuns
    /\ edits > 0
    /\ Saved
    /\ \E j \in 1..Len(LastSheetRows) :
          LastSheetRows[j].AttackNumber > 0 /\ LastSheetRows[j].IsLootHit = "Yes"
    /\ \E j \in 1..Len(LastSheetRows) :
          LastSheetRows[j].AttackNumber > 0 /\ LastSheetRows[j].IsLootHit = "No"

(* C3: a player's missed-hit count on the leaderboard is the sum over the   *)
(* wars of the filtered set of: 2 if the player has a sentinel row (attack  *)
(* number 0) in that war, else the number of the player's missed rows in    *)
(* that war.                                                                *)
MissedInWar(rows, name, tag, war_id) ==
    LET mine == SelectSeq(rows, LAMBDA row : /\ row.PlayerName = name
                                             /\ row.PlayerTag = tag
                                             /\ row.WarID = war_id)
    IN  IF \E j \in 1..Len(mine) : mine[j].AttackNumber = 0 THEN 2
        ELSE Len(SelectSeq(mine, LAMBDA row : row.IsMissed = "Yes"))

RECURSIVE SumOver(_, _)
SumOver(S, f) == IF S = {} THEN 0
                 ELSE LET x == CHOOSE x \in S : TRUE
                      IN  f[x] + SumOver(S \ {x}, f)

MissedPerWarSummed(rows, name, tag) ==
    LET wars == {rows[j].WarID : j \in 1..Len(rows)}
    IN  SumOver(wars, [w \in wars |-> MissedInWar(rows, name, tag, w)])

C4_FetchFailureStillRegenerates ==
    [][(RunStep /\ last'.outcome = "fetch_failed") =>
         /\ book' = book
         /\ leaderboard_files' = UpdateLeaderboards(excel_exists, book,
                                                    leaderboard_files, now)]_vars

(* C5: every player of a complete record set of the filtered set is on the  *)
(* leaderboard; a player without a qualifying attack has three-star rate    *)
(* "0.0%" and average stars 0.0.  For every store content.                  *)
Qualifying(row) ==
    row.AttackNumber > 0 /\ row.IsLootHit # "Yes" /\ row.IsMissed # "Yes"

C5_EveryParticipantListed ==
    \A days \in PeriodDays :
       LET board == CurrentLeaderboard(days)
           rows == AllData(book, days, now)
       IN  \A j \in 1..Len(rows) :
              \E i \in 1..Len(board) :
                 /\ board[i].PlayerTag = rows[j].PlayerTag
                 /\ board[i].PlayerName = rows[j].PlayerName
                 /\ (~\E k \in 1..Len(rows) :
                        /\ rows[k].PlayerTag = rows[j].PlayerTag
                        /\ rows[k].PlayerName = rows[j].PlayerName
                        /\ Qualifying(rows[k]))
                    => (board[i].ThreeStarRate = 0 /\ board[i].AvgStarsPerAttack = 0)

(* C6: every leaderboard is ordered by three-star rate descending, then by  *)
(* missed hits ascending, then by total wars descending.                    *)
InOrder(a, b) ==
    \/ a.ThreeStarRate > b.ThreeStarRate
    \/ a.ThreeStarRate = b.ThreeStarRate /\ a.MissedHits < b.MissedHits
    \/ /\ a.ThreeStarRate = b.ThreeStarRate
       /\ a.MissedHits = b.MissedHits
       /\ a.TotalWars >= b.TotalWars

C6_LeaderboardOrdered ==
    \A suffix \in Suffixes :
       LET board == leaderboard_files[suffix]
       IN  \A i \in 1..(Len(board) - 1) : InOrder(board[i], board[i + 1])

\* a written leaderboard has a player with rate 100% and one war before a
\* player with rate 50%, more wars and fewer missed hits
C6_Witness ==
    \E suffix \in Suffixes :
       LET board == leaderboard_files[suffix]
       IN  /\ Len(board) = 2
           /\ board[1].ThreeStarRate = 1000 /\ board[1].TotalWars = 1
           /\ board[2].ThreeStarRate = 500 /\ board[2].TotalWars = 2
           /\ board[2].MissedHits < board[1].MissedHits

(* C7: a snapshot whose state is not "notInWar" is skipped as a league war  *)
(* if and only if its league name is present and is not "Unranked".         *)
C7_LeagueWarIffNamedLeague ==
    (last.outcome \in {"cwl_skipped", "already_complete", "ended_saved",
                       "in_progress_saved"}) =>
       (last.outcome = "cwl_skipped"
          <=> (last.war.warLeague.has_name /\ last.war.warLeague.name # "Unranked"))

(* C8: a leaderboard depends only on the record sets stored as complete     *)
(* whose war end time is not before the cutoff of its window: it is the     *)
(* leaderboard of the store that holds these sets alone, and it is empty    *)
(* when there is none.                                                      *)
InWindow(sheet, days) ==
    /\ sheet.rows # <<>>
    /\ StoredComplete(sheet)
    /\ days # 0 => DayOfDate[sheet.rows[1].WarEndTime[1]] >= now - days

C8_OnlyCompleteWarsCount ==
    \A days \in PeriodDays :
       LET counted == SelectSeq(book, LAMBDA sheet : InWindow(sheet, days))
       IN  /\ CurrentLeaderboard(days) =
                 calculate_leaderboard(excel_exists, counted, 0, now)
           /\ counted = <<>> => CurrentLeaderboard(days) = <<>>

\* the store holds a war in progress and a complete war that the window of
\* seven days leaves out, and the unbounded leaderboard was written from it
C8_Witness ==
    /\ \E i \in 1..Len(book) : ~StoredComplete(book[i])
    /\ CurrentLeaderboard(0) # <<>>
    /\ CurrentLeaderboard(7) = <<>>
    /\ leaderboard_files["_all"] = CurrentLeaderboard(0)

(* C9: process_war gives, for a member with k >= 1 attacks, k records       *)
(* numbered 1..k in attack order and no sentinel; for a member without      *)
(* attacks, one sentinel record (attack number 0, stars 0, missed, not a    *)
(* loot hit); the war-complete flag is the same on every record and set     *)
(* exactly when the snapshot's state is the ended state.                    *)
C9_NormalizerOutput ==
    Processed =>
       LET members == last.war.members
           details == last.war_data.war_details
           RowsOf(m) == SelectSeq(details, LAMBDA row : row.PlayerTag = members[m].tag)
       IN  /\ \A j \in 1..Len(details) :
                 /\ \E m \in 1..Len(members) : members[m].tag = details[j].PlayerTag
                 /\ details[j].WarComplete = "Yes" <=> last.war.state = "warEnded"
                 /\ details[j].WarComplete \in {"Yes", "No"}
           /\ last.war_data.is_ended <=> last.war.state = "warEnded"
           /\ \A m \in 1..Len(members) :
                 LET attacks == members[m].attacks
                     rows == RowsOf(m)
                 IN  IF attacks = <<>>
                     THEN /\ Len(rows) = 1
                          /\ rows[1].AttackNumber = 0
                          /\ rows[1].Stars = 0
                          /\ rows[1].IsMissed = "Yes"
                          /\ rows[1].IsLootHit = "No"
                     ELSE /\ Len(rows) = Len(attacks)
                          /\ \A n \in 1..Len(rows) :
                                /\ rows[n].AttackNumber = n
                                /\ rows[n].Stars = attacks[n].stars
                                /\ rows[n].Destruction = attacks[n].destructionPercentage

\* the run normalised an ended war of a member without attacks and a member
\* with two different attacks, one of them carrying a stored loot-hit marking
C9_Witness ==
    /\ Processed
    /\ last.war.state = "warEnded"
    /\ Len(last.war.members) = 2
    /\ last.war.members[1].attacks = <<>>
    /\ Len(last.war.members[2].attacks) = 2
    /\ last.war.members[2].attacks[1] # last.war.members[2].attacks[2]
    /\ Len(last.war_data.war_details) = 3
    /\ \E j \in 1..3 : last.war_data.war_details[j].IsLootHit = "Yes"

(* C10: each roster entry's Wars Participated is the number of stored war   *)
(* record sets in which the player has a row with attack number > 0, and    *)
(* so never exceeds its Total Wars.                                         *)
C10_WarsParticipatedCountsWars ==
    \A r \in 1..Len(roster) :
       /\ roster[r].WarsParticipated =
             Cardinality({i \in 1..Len(book) :
                \E j \in 1..Len(book[i].rows) :
                   /\ book[i].rows[j].PlayerTag = roster[r].PlayerTag
                   /\ book[i].rows[j].AttackNumber > 0})
       /\ roster[r].WarsParticipated <= roster[r].TotalWars

(* C11: each roster entry's name is the name in the last stored row, in    *)
(* store order, that carries the player's tag, and its town-hall level is   *)
(* the maximum over all stored rows of that tag.                            *)
C11_RosterNameLastSeenTownHallMax ==
    \A r \in 1..Len(roster) :
       LET rows == SelectSeq(AllRows(book),
                             LAMBDA row : row.PlayerTag = roster[r].PlayerTag)
       IN  /\ rows # <<>>
           /\ roster[r].PlayerName = rows[Len(rows)].PlayerName
           /\ \A j \in 1..Len(rows) : roster[r].LastSeenTH >= rows[j].TownHall
           /\ \E j \in 1..Len(rows) : roster[r].LastSeenTH = rows[j].TownHall

(* C12: a run that fetches again the unchanged snapshot of a war in         *)
(* progress leaves the war's record set with the same rows in the same      *)
(* order and the same derived fields, with exactly the loot-hit flags it    *)
(* had before the run, and the store holds one record set of the war.       *)
SameButLoot(a, b) ==
    /\ [a EXCEPT !.IsLootHit = "No"] = [b EXCEPT !.IsLootHit = "No"]
    /\ LootMarked(a) <=> LootMarked(b)

C12_RefetchIdempotent ==
    [][(/\ RunStep
        /\ last.outcome = "in_progress_saved"
        /\ last'.outcome = "in_progress_saved"
        /\ last'.war = last.war
        /\ HasSheet(book, SheetName(last.war_data.war_id))) =>
         LET sheet_name == SheetName(last.war_data.war_id)
             old == ReadSheet(book, sheet_name)
             new == ReadSheet(book', sheet_name)
         IN  /\ Cardinality(SheetIndex(book', sheet_name)) = 1
             /\ Len(new) = Len(old)
             /\ \A j \in 1..Len(old) : SameButLoot(old[j], new[j])]_vars

(* C13: every leaderboard has at most one entry per player tag, and the    *)
(* entry's total wars, total stars and missed hits are those of all rows    *)
(* of that tag in the filtered set, under whatever names the tag appears.   *)
C13_OneEntryPerTag ==
    \A days \in PeriodDays :
       LET board == CurrentLeaderboard(days)
           rows == AllData(book, days, now)
           RowsOfTag(tag) == SelectSeq(rows, LAMBDA row : row.PlayerTag = tag)
           MissedOfTag(tag) ==
               LET missed == SelectSeq(RowsOfTag(tag),
                                LAMBDA row : row.IsMissed = "Yes" \/ row.AttackNumber = 0)
               IN  IF missed = <<>> THEN 0 ELSE count_missed(missed)
       IN  \A i \in 1..Len(board) :
              LET mine == RowsOfTag(board[i].PlayerTag)
              IN  /\ \A j \in 1..Len(board) :
                        board[j].PlayerTag = board[i].PlayerTag => j = i
                  /\ board[i].TotalWars =
                        Cardinality({mine[k].WarID : k \in 1..Len(mine)})
                  /\ board[i].TotalStars = SumStars(SelectSeq(mine, Qualifying))
                  /\ board[i].MissedHits = MissedOfTag(board[i].PlayerTag)

(* C14: over any sequence of runs, send_discord_war_report is invoked at    *)
(* most once per war identifier.                                            *)
C14_ReportAtMostOncePerWar ==
    \A id \in WarIds : discord_reports[id] <= 1

=============================================================================
